---------------------------- MODULE Spec2Model ----------------------------
(***************************************************************************)
(* Complaint management service: the Flask HTTP adapter (api_server.py)    *)
(* and the agent-tool adapter (db_complaints.py) over one SQLite table     *)
(* "complaints" kept in the shared file complaints.db.                     *)
(*                                                                         *)
(* Python strings are modelled as sequences of one-character strings, so   *)
(* that the regular expressions and str.strip() are computed character by  *)
(* character.  Only string-valued request fields are modelled.             *)
(***************************************************************************)
EXTENDS Integers, Sequences, FiniteSets, TLC

VARIABLES
    tableExists,  \* whether the table "complaints" exists in complaints.db
    rows,         \* the committed rows of the table: a set of records
    now,          \* index into Clock: the value of CURRENT_TIMESTAMP
    apiUp,        \* api_server has been imported (init_database returned)
    pc,           \* pc[w]: position of worker w inside its operation
    req,          \* req[w]: the operation worker w runs, with its arguments
    loc,          \* loc[w]: the operation's local variables
    conn,         \* conn[w]: "none", "open" or "closed" (the sqlite3 connection)
    resp,         \* resp[w]: what the operation returned or raised
    nops,         \* number of operations begun so far
    vphone,       \* validator harness: the phone string under test
    vresult       \* validator harness: "unset", "true" or "false"

vars == <<tableExists, rows, now, apiUp, pc, req, loc, conn, resp, nops,
          vphone, vresult>>

storeVars == <<tableExists, rows>>
harnessVars == <<vphone, vresult>>

-----------------------------------------------------------------------------
(* Bounds of the model *)

MaxOps == 3        \* operations begun in one behaviour
MaxClock == 2      \* distinct values of CURRENT_TIMESTAMP
MaxRun == 17       \* longest digit run given to the phone validator harness

Workers == {"w1", "w2"}

-----------------------------------------------------------------------------
(* Characters and character classes *)

Digits == {"0", "1", "2", "3", "4", "5", "6", "7", "8", "9"}
NonZeroDigits == Digits \ {"0"}
Lower == {"a", "b", "c", "d", "e", "f", "g", "h", "i", "j", "k", "l", "m",
          "n", "o", "p", "q", "r", "s", "t", "u", "v", "w", "x", "y", "z"}
Upper == {"A", "B", "C", "D", "E", "F", "G", "H", "I", "J", "K", "L", "M",
          "N", "O", "P", "Q", "R", "S", "T", "U", "V", "W", "X", "Y", "Z"}
Alpha == Lower \cup Upper
EmailLocalChars == Alpha \cup Digits \cup {".", "_", "%", "+", "-"}
EmailDomainChars == Alpha \cup Digits \cup {".", "-"}
Whitespace == {" ", "\t", "\n", "\r", "\f"}

PhoneMinDigits == 7
PhoneMaxDigits == 15
TldMinLen == 2

AllIn(s, lo, hi, class) == \A i \in lo..hi : s[i] \in class

\* Python's "$" without re.MULTILINE: at the end of the string, or just
\* before a newline that is the last character of the string.
DollarAt(s, e) ==
    \/ e = Len(s)
    \/ e = Len(s) - 1 /\ s[Len(s)] = "\n"

\* Positions where a match of [\+]?[1-9]?[0-9]{7,15} starting at 1 can end.
PhoneRegexEnds(s) ==
    { e \in 0..Len(s) :
        \E a \in {0, 1}, b \in {0, 1}, k \in PhoneMinDigits..PhoneMaxDigits :
            /\ e = a + b + k
            /\ a = 1 => s[1] = "+"
            /\ b = 1 => s[a + 1] \in NonZeroDigits
            /\ AllIn(s, a + b + 1, e, Digits) }

\* re.match(r'^[\+]?[1-9]?[0-9]{7,15}$', phone) is not None
validate_phone_number(phone) ==
    \E e \in PhoneRegexEnds(phone) : DollarAt(phone, e)

\* Positions where a match of
\* [a-zA-Z0-9._%+-]+@[a-zA-Z0-9.-]+\.[a-zA-Z]{2,} starting at 1 can end.
EmailRegexEnds(s) ==
    { e \in 0..Len(s) :
        \E at \in 2..Len(s), dot \in 4..Len(s) :
            /\ at + 1 < dot
            /\ AllIn(s, 1, at - 1, EmailLocalChars)
            /\ s[at] = "@"
            /\ AllIn(s, at + 1, dot - 1, EmailDomainChars)
            /\ s[dot] = "."
            /\ e - dot >= TldMinLen
            /\ AllIn(s, dot + 1, e, Alpha) }

\* re.match(r'^[a-zA-Z0-9._%+-]+@[a-zA-Z0-9.-]+\.[a-zA-Z]{2,}$', email)
validate_email(email) ==
    \E e \in EmailRegexEnds(email) : DollarAt(email, e)

\* str.strip(): leading and trailing whitespace removed.
RECURSIVE LStrip(_)
LStrip(s) ==
    IF s # <<>> /\ Head(s) \in Whitespace THEN LStrip(Tail(s)) ELSE s

RECURSIVE RStrip(_)
RStrip(s) ==
    IF s # <<>> /\ s[Len(s)] \in Whitespace
    THEN RStrip(SubSeq(s, 1, Len(s) - 1))
    ELSE s

Strip(s) == RStrip(LStrip(s))


-----------------------------------------------------------------------------
(* The table "complaints" and the SQL statements the code executes *)

\* sample_data
\* 'John Doe'
JohnName ==
    <<"J", "o", "h", "n", " ", "D", "o", "e">>
\* '1234567890'
JohnPhone ==
    <<"1", "2", "3", "4", "5", "6", "7", "8", "9", "0">>
\* 'john@example.com'
JohnEmail ==
    <<"j", "o", "h", "n", "@", "e", "x", "a", "m", "p", "l", "e", ".",
    "c", "o", "m">>
\* 'Delayed delivery of order #12345'
JohnDetails ==
    <<"D", "e", "l", "a", "y", "e", "d", " ", "d", "e", "l", "i", "v",
    "e", "r", "y", " ", "o", "f", " ", "o", "r", "d", "e", "r", " ", "#",
    "1", "2", "3", "4", "5">>
\* 'Jane Smith'
JaneName ==
    <<"J", "a", "n", "e", " ", "S", "m", "i", "t", "h">>
\* '9876543210'
JanePhone ==
    <<"9", "8", "7", "6", "5", "4", "3", "2", "1", "0">>
\* 'jane@example.com'
JaneEmail ==
    <<"j", "a", "n", "e", "@", "e", "x", "a", "m", "p", "l", "e", ".",
    "c", "o", "m">>
\* 'Received wrong item in my order'
JaneDetails ==
    <<"R", "e", "c", "e", "i", "v", "e", "d", " ", "w", "r", "o", "n",
    "g", " ", "i", "t", "e", "m", " ", "i", "n", " ", "m", "y", " ", "o",
    "r", "d", "e", "r">>
\* 'Mike Johnson'
MikeName ==
    <<"M", "i", "k", "e", " ", "J", "o", "h", "n", "s", "o", "n">>
\* '5555555555'
MikePhone ==
    <<"5", "5", "5", "5", "5", "5", "5", "5", "5", "5">>
\* 'mike@example.com'
MikeEmail ==
    <<"m", "i", "k", "e", "@", "e", "x", "a", "m", "p", "l", "e", ".",
    "c", "o", "m">>
\* 'Food quality was poor'
MikeDetails ==
    <<"F", "o", "o", "d", " ", "q", "u", "a", "l", "i", "t", "y", " ",
    "w", "a", "s", " ", "p", "o", "o", "r">>

\* A TIMESTAMP value is a tuple; NULL is the empty tuple.
Null == <<>>

Row(id, name, phone, email, details, created, status) ==
    [complaint_id |-> id, name |-> name, phone_number |-> phone,
     email |-> email, complaint_details |-> details,
     created_at |-> created, status |-> status]

sample_data ==
    << Row("CMP001", JohnName, JohnPhone, JohnEmail, JohnDetails,
           <<"2025-06-25 10:30:00">>, "pending"),
       Row("CMP002", JaneName, JanePhone, JaneEmail, JaneDetails,
           <<"2025-06-26 14:20:00">>, "resolved"),
       Row("CMP003", MikeName, MikePhone, MikeEmail, MikeDetails,
           <<"2025-06-27 09:15:00">>, "pending") >>

SeedRows == {sample_data[i] : i \in 1..Len(sample_data)}
SeedIds == {r.complaint_id : r \in SeedRows}

\* created_at TIMESTAMP DEFAULT CURRENT_TIMESTAMP
CurrentTimestamp(t) == <<"CURRENT_TIMESTAMP", t>>

\* status TEXT DEFAULT 'pending'
DefaultStatus == "pending"

\* The outcome of a statement: the exception it raised ("none" when it
\* succeeded) and the rows of the table after it.
Outcome(exc, rs) == [exc |-> exc, rows |-> rs]

\* Faulty variant: the column declared without PRIMARY KEY.
PrimaryKeyUnchecked(rs, id) == TRUE

\* complaint_id TEXT PRIMARY KEY
PrimaryKeyFree(rs, id) == \A r \in rs : r.complaint_id # id

\* Faulty variant: INSERT OR REPLACE, which overwrites the row holding the id.
SqlInsertOrReplace(exists, rs, row, fault) ==
    IF fault \/ ~exists THEN Outcome("OperationalError", rs)
    ELSE Outcome("none",
                 {r \in rs : r.complaint_id # row.complaint_id} \cup {row})

\* INSERT INTO complaints (...) VALUES (...) of one full row.  fault is an
\* environment failure of the statement (locked or unavailable database).
SqlInsert(exists, rs, row, fault) ==
    IF fault \/ ~exists THEN Outcome("OperationalError", rs)
    ELSE IF ~PrimaryKeyFree(rs, row.complaint_id)
    THEN Outcome("IntegrityError", rs)
    ELSE Outcome("none", rs \cup {row})

\* cursor.executemany(INSERT ..., seq): the rows one after the other, stopping
\* at the first exception.
RECURSIVE SqlInsertMany(_, _, _, _)
SqlInsertMany(exists, rs, seq, fault) ==
    IF seq = <<>> THEN Outcome("none", rs)
    ELSE LET one == SqlInsert(exists, rs, Head(seq), fault)
         IN  IF one.exc # "none" THEN one
             ELSE SqlInsertMany(exists, one.rows, Tail(seq), fault)

\* Faulty variant: the submitted name and complaint_details stored stripped.
NewRowStripped(id, data, t) ==
    Row(id, Strip(data.name), data.phone_number, data.email,
        Strip(data.complaint_details), CurrentTimestamp(t), DefaultStatus)

\* INSERT INTO complaints (complaint_id, name, phone_number, email,
\* complaint_details): created_at and status take the column defaults.
NewRow(id, data, t) ==
    Row(id, data.name, data.phone_number, data.email, data.complaint_details,
        CurrentTimestamp(t), DefaultStatus)

\* The six columns a read selects (status is not among them).
Projection(r) ==
    [complaint_id |-> r.complaint_id, name |-> r.name,
     phone_number |-> r.phone_number, email |-> r.email,
     complaint_details |-> r.complaint_details, created_at |-> r.created_at]

\* SELECT ... FROM complaints WHERE complaint_id = ? ; cursor.fetchone():
\* the empty set stands for None, a singleton for the row fetched.
SqlSelectOne(rs, id) ==
    LET hits == {r \in rs : r.complaint_id = id}
    IN  IF hits = {} THEN {} ELSE {Projection(CHOOSE r \in hits : TRUE)}

\* Faulty variant: the UPDATE without its WHERE clause.
SqlUpdateEveryRow(rs, id, status) ==
    {[r EXCEPT !.status = status] : r \in rs}

\* UPDATE complaints SET status = ? WHERE complaint_id = ?
SqlUpdateStatus(rs, id, status) ==
    { IF r.complaint_id = id THEN [r EXCEPT !.status = status] ELSE r :
        r \in rs }

\* SELECT COUNT(*) FROM complaints
SqlCount(rs) == Cardinality(rs)

-----------------------------------------------------------------------------
(* Exceptions: the classes raised and what each except clause catches *)

Bases ==
    [ BadRequest |-> {"BadRequest", "HTTPException", "Exception"},
      NotFound |-> {"NotFound", "HTTPException", "Exception"},
      InternalServerError |->
          {"InternalServerError", "HTTPException", "Exception"},
      OperationalError |->
          {"OperationalError", "DatabaseError", "Error", "Exception"},
      IntegrityError |->
          {"IntegrityError", "DatabaseError", "Error", "Exception"} ]

\* "except cls" catches exc
Catches(cls, exc) == exc # "none" /\ cls \in Bases[exc]

\* The status Flask answers with when exc leaves the view function.
HttpCodeOf(exc) ==
    CASE exc = "BadRequest" -> 400
      [] exc = "NotFound" -> 404
      [] OTHER -> 500

-----------------------------------------------------------------------------
(* Inputs *)

RequiredFields == {"name", "phone_number", "email", "complaint_details"}

PhoneOK == <<"4", "1", "5", "5", "5", "5", "0">>
PhoneShort == <<"1", "2", "3">>
PhoneNewline == PhoneOK \o <<"\n">>
EmailOK == <<"a", "@", "b", ".", "c", "o">>
EmailNoTld == <<"a", "@", "b">>

AliceData ==
    [name |-> <<"A", "l">>, phone_number |-> PhoneOK, email |-> EmailOK,
     complaint_details |-> <<"L", "a", "t", "e">>]
BobData ==
    [name |-> <<" ", "B", "o">>, phone_number |-> <<"+">> \o PhoneOK,
     email |-> EmailOK, complaint_details |-> <<"B", "a", "d", " ">>]
BlankData ==
    [name |-> <<" ">>, phone_number |-> PhoneShort, email |-> EmailNoTld,
     complaint_details |-> <<"x">>]

Without(data, field) == [f \in (DOMAIN data) \ {field} |-> data[f]]
EmptyDict == [f \in {} |-> <<>>]

\* request.get_json() of POST /complaints
HttpCreateInputs ==
    { AliceData, BobData, EmptyDict,
      Without(AliceData, "email"),
      [AliceData EXCEPT !.name = <<>>],
      [AliceData EXCEPT !.complaint_details = <<" ", "\t">>],
      [AliceData EXCEPT !.phone_number = PhoneShort],
      [AliceData EXCEPT !.phone_number = PhoneNewline],
      [AliceData EXCEPT !.email = EmailNoTld] }

\* arguments of the tool create_complaint(name, phone_number, email, ...)
ToolCreateInputs == {AliceData, BlankData}

\* values "CMP" + str(uuid.uuid4())[:8].upper() can take
GenIds == {"CMP1A2B3C4D", "CMP9F8E7D6C"}

IdInputs == {"CMP001", "CMP1A2B3C4D", "CMP99999999"}
StatusInputs == {"resolved", ""}
Faults == {FALSE, TRUE}

-----------------------------------------------------------------------------
(* What each handler computes *)

NoReq == [op |-> "none", data |-> EmptyDict, complaint_id |-> "", status |-> ""]
NoLoc == [complaint_id |-> "", empty |-> FALSE]
NoResp == [exc |-> "none", code |-> 0, text |-> "", data |-> {},
           complaint_id |-> ""]

\* A function that returns normally (init_database, setup_complaints_database)
Returned == [NoResp EXCEPT !.text = "returned"]
\* An exception that leaves the function
Raised(exc) == [NoResp EXCEPT !.exc = exc, !.text = "raised"]
\* abort(code, description) leaving a view function
HttpError(exc, text) ==
    [NoResp EXCEPT !.exc = exc, !.code = HttpCodeOf(exc), !.text = text]
\* a tool returning the plain string text
ToolString(text) == [NoResp EXCEPT !.text = text]

\* api_server.create_complaint, the checks before the connection is opened:
\* the description of the abort(400) raised, or "ok".
HttpCreateCheck(data) ==
    IF DOMAIN data = {} THEN "Invalid JSON data"
    ELSE IF \E f \in RequiredFields : f \notin DOMAIN data \/ data[f] = <<>>
    THEN "Missing or empty field"
    ELSE IF ~validate_phone_number(data.phone_number)
    THEN "Invalid phone number format"
    ELSE IF ~validate_email(data.email) THEN "Invalid email format"
    ELSE IF Strip(data.name) = <<>> \/ Strip(data.complaint_details) = <<>>
    THEN "Name and complaint details are required"
    ELSE "ok"

\* The abort(400) is raised inside "try: ... except ValueError".
HttpCreateReject(text) ==
    IF Catches("ValueError", "BadRequest")
    THEN HttpError("BadRequest", "handled as ValueError")
    ELSE HttpError("BadRequest", text)

\* api_server.create_complaint after the INSERT: out is the statement's outcome
HttpCreateResponse(out, id) ==
    IF Catches("Exception", out.exc)
    THEN HttpError("InternalServerError", "Error creating complaint")
    ELSE IF out.exc # "none" THEN Raised(out.exc)
    ELSE [NoResp EXCEPT !.code = 200, !.complaint_id = id,
                        !.text = "Complaint created successfully"]

\* db_complaints.create_complaint after the INSERT
ToolCreateResponse(out, id) ==
    IF Catches("Exception", out.exc) THEN ToolString("Error creating complaint")
    ELSE IF out.exc # "none" THEN Raised(out.exc)
    ELSE [NoResp EXCEPT !.complaint_id = id,
                        !.text = "Complaint created successfully"]

\* The exception raised inside the try block of a read: by the SELECT, or by
\* the abort(404) of api_server.get_complaint when fetchone() gave None.
SelectExc(exists, fault) ==
    IF fault \/ ~exists THEN "OperationalError" ELSE "none"

HttpGetTryExc(exists, rs, id, fault) ==
    IF SelectExc(exists, fault) # "none" THEN SelectExc(exists, fault)
    ELSE IF SqlSelectOne(rs, id) = {} THEN "NotFound"
    ELSE "none"

\* api_server.get_complaint: the try block and its "except Exception"
HttpGetResponse(exists, rs, id, fault) ==
    LET exc == HttpGetTryExc(exists, rs, id, fault)
    IN  IF Catches("Exception", exc)
        THEN HttpError("InternalServerError", "Error retrieving complaint")
        ELSE IF exc # "none" THEN HttpError(exc, "Complaint not found")
        ELSE [NoResp EXCEPT !.code = 200, !.data = SqlSelectOne(rs, id)]

\* db_complaints.get_complaint_details
ToolGetResponse(exists, rs, id, fault) ==
    LET exc == SelectExc(exists, fault)
    IN  IF Catches("Exception", exc)
        THEN ToolString("Error retrieving complaint")
        ELSE IF exc # "none" THEN Raised(exc)
        ELSE IF SqlSelectOne(rs, id) # {}
        THEN [NoResp EXCEPT !.data = SqlSelectOne(rs, id)]
        ELSE ToolString("Complaint not found")

\* db_complaints.update_complaint_status: the UPDATE and its commit
UpdateOutcome(exists, rs, id, status, fault) ==
    IF fault \/ ~exists THEN Outcome("OperationalError", rs)
    ELSE Outcome("none", SqlUpdateStatus(rs, id, status))

ToolUpdateResponse(out) ==
    IF Catches("Exception", out.exc)
    THEN ToolString("Error updating complaint status")
    ELSE IF out.exc # "none" THEN Raised(out.exc)
    ELSE ToolString("Complaint status updated")

\* Faulty variant: the sample rows inserted whatever the count.
InitAlwaysSeed(count) == TRUE

\* init_database: "if cursor.fetchone()[0] == 0"
InitShouldSeed(count) == count = 0

-----------------------------------------------------------------------------
(* The state machine *)

Init ==
    /\ tableExists = FALSE
    /\ rows = {}
    /\ now = 1
    /\ apiUp = FALSE
    /\ pc = [w \in Workers |-> "idle"]
    /\ req = [w \in Workers |-> NoReq]
    /\ loc = [w \in Workers |-> NoLoc]
    /\ conn = [w \in Workers |-> "none"]
    /\ resp = [w \in Workers |-> NoResp]
    /\ nops = 0
    /\ vphone = <<>>
    /\ vresult = "unset"

\* Worker w, free or holding the answer of its previous operation, begins
\* operation op with the given arguments; l is the new frame's locals.
Begin(w, op, data, id, status, l) ==
    /\ pc[w] \in {"idle", "done"}
    /\ nops < MaxOps
    /\ nops' = nops + 1
    /\ req' = [req EXCEPT ![w] = [op |-> op, data |-> data,
                                  complaint_id |-> id, status |-> status]]
    /\ loc' = [loc EXCEPT ![w] = l]

\* Worker w leaves its operation at position "done" with response r and its
\* connection in state c.
Finish(w, r, c) ==
    /\ pc' = [pc EXCEPT ![w] = "done"]
    /\ resp' = [resp EXCEPT ![w] = r]
    /\ conn' = [conn EXCEPT ![w] = c]

\* Worker w goes on to position next with its connection open.
Goto(w, next) ==
    /\ pc' = [pc EXCEPT ![w] = next]
    /\ conn' = [conn EXCEPT ![w] = "open"]
    /\ resp' = [resp EXCEPT ![w] = NoResp]

\* init_database: get_db_connection() and CREATE TABLE IF NOT EXISTS
InitCreateTable(w) ==
    /\ Begin(w, "init_database", EmptyDict, "", "", NoLoc)
    /\ \E fault \in Faults :
         IF fault
         THEN /\ Finish(w, Raised("OperationalError"), "open")
              /\ UNCHANGED tableExists
         ELSE /\ Goto(w, "init_count")
              /\ tableExists' = TRUE
    /\ UNCHANGED <<rows, now, apiUp, harnessVars>>

\* init_database: SELECT COUNT(*); when the table is not empty, the commit
\* and the close follow at once.
InitCount(w) ==
    /\ pc[w] = "init_count"
    /\ \E fault \in Faults :
         IF fault \/ ~tableExists
         THEN /\ Finish(w, Raised("OperationalError"), "open")
              /\ UNCHANGED <<loc, apiUp>>
         ELSE IF InitShouldSeed(SqlCount(rows))
         THEN /\ Goto(w, "init_seed")
              /\ loc' = [loc EXCEPT ![w].empty = TRUE]
              /\ UNCHANGED apiUp
         ELSE /\ Finish(w, Returned, "closed")
              /\ apiUp' = TRUE
              /\ UNCHANGED loc
    /\ UNCHANGED <<storeVars, now, req, nops, harnessVars>>

\* init_database: executemany of sample_data, commit, close
InitSeed(w) ==
    /\ pc[w] = "init_seed"
    /\ \E fault \in Faults :
         LET out == SqlInsertMany(tableExists, rows, sample_data, fault)
         IN  IF out.exc = "none"
             THEN /\ rows' = out.rows
                  /\ Finish(w, Returned, "closed")
                  /\ apiUp' = TRUE
             ELSE /\ Finish(w, Raised(out.exc), "open")
                  /\ UNCHANGED <<rows, apiUp>>
    /\ UNCHANGED <<tableExists, now, req, loc, nops, harnessVars>>

\* setup_complaints_database: get_db_connection() and DROP TABLE IF EXISTS
SetupDrop(w) ==
    /\ Begin(w, "setup_complaints_database", EmptyDict, "", "", NoLoc)
    /\ \E fault \in Faults :
         IF fault
         THEN /\ Finish(w, Raised("OperationalError"), "open")
              /\ UNCHANGED storeVars
         ELSE /\ Goto(w, "setup_create")
              /\ tableExists' = FALSE
              /\ rows' = {}
    /\ UNCHANGED <<now, apiUp, harnessVars>>

\* setup_complaints_database: CREATE TABLE complaints
SetupCreate(w) ==
    /\ pc[w] = "setup_create"
    /\ \E fault \in Faults :
         IF fault \/ tableExists
         THEN /\ Finish(w, Raised("OperationalError"), "open")
              /\ UNCHANGED tableExists
         ELSE /\ Goto(w, "setup_seed")
              /\ tableExists' = TRUE
    /\ UNCHANGED <<rows, now, apiUp, req, loc, nops, harnessVars>>

\* setup_complaints_database: executemany of sample_data, commit, close
SetupSeed(w) ==
    /\ pc[w] = "setup_seed"
    /\ \E fault \in Faults :
         LET out == SqlInsertMany(tableExists, rows, sample_data, fault)
         IN  IF out.exc = "none"
             THEN /\ rows' = out.rows
                  /\ Finish(w, Returned, "closed")
             ELSE /\ Finish(w, Raised(out.exc), "open")
                  /\ UNCHANGED rows
    /\ UNCHANGED <<tableExists, now, apiUp, req, loc, nops, harnessVars>>

\* HttpCreateCheck of every request the model sends
HttpCreateVerdict == [data \in HttpCreateInputs |-> HttpCreateCheck(data)]

\* POST /complaints with body data: the checks, then get_db_connection() and
\* the id, which is uuid4's choice
HttpCreateOf(w, data, id) ==
    /\ apiUp
    /\ IF HttpCreateVerdict[data] # "ok"
       THEN /\ Begin(w, "http_create", data, "", "", NoLoc)
            /\ Finish(w, HttpCreateReject(HttpCreateVerdict[data]), "none")
       ELSE /\ Begin(w, "http_create", data, "", "",
                     [NoLoc EXCEPT !.complaint_id = id])
            /\ Goto(w, "create_insert")
    /\ UNCHANGED <<storeVars, now, apiUp, harnessVars>>

HttpCreateBegin(w) ==
    /\ pc[w] \in {"idle", "done"}
    /\ nops < MaxOps
    /\ \E data \in HttpCreateInputs, id \in GenIds : HttpCreateOf(w, data, id)

\* the tool create_complaint: get_db_connection() and the id
ToolCreateOf(w, data, id) ==
    /\ Begin(w, "tool_create", data, "", "",
             [NoLoc EXCEPT !.complaint_id = id])
    /\ Goto(w, "create_insert")
    /\ UNCHANGED <<storeVars, now, apiUp, harnessVars>>

ToolCreateBegin(w) ==
    \E data \in ToolCreateInputs, id \in GenIds : ToolCreateOf(w, data, id)

\* both create_complaint: the INSERT, the commit, the close and the answer
CreateInsertOf(w, fault) ==
    /\ pc[w] = "create_insert"
    /\ LET id == loc[w].complaint_id
           out == SqlInsert(tableExists, rows, NewRow(id, req[w].data, now),
                            fault)
       IN  /\ rows' = out.rows
           /\ Finish(w, IF req[w].op = "http_create"
                        THEN HttpCreateResponse(out, id)
                        ELSE ToolCreateResponse(out, id),
                     "closed")
    /\ UNCHANGED <<tableExists, now, apiUp, req, loc, nops, harnessVars>>

CreateInsert(w) == \E fault \in Faults : CreateInsertOf(w, fault)

\* GET /complaints/<complaint_id>
HttpGetOf(w, id, fault) ==
    /\ apiUp
    /\ Begin(w, "http_get", EmptyDict, id, "", NoLoc)
    /\ Finish(w, HttpGetResponse(tableExists, rows, id, fault), "closed")
    /\ UNCHANGED <<storeVars, now, apiUp, harnessVars>>

HttpGet(w) == \E id \in IdInputs, fault \in Faults : HttpGetOf(w, id, fault)

\* the tool get_complaint_details
ToolGetOf(w, id, fault) ==
    /\ Begin(w, "tool_get", EmptyDict, id, "", NoLoc)
    /\ Finish(w, ToolGetResponse(tableExists, rows, id, fault), "closed")
    /\ UNCHANGED <<storeVars, now, apiUp, harnessVars>>

ToolGet(w) == \E id \in IdInputs, fault \in Faults : ToolGetOf(w, id, fault)

\* the tool update_complaint_status
ToolUpdateOf(w, id, status, fault) ==
    /\ Begin(w, "tool_update", EmptyDict, id, status, NoLoc)
    /\ LET out == UpdateOutcome(tableExists, rows, id, status, fault)
       IN  /\ rows' = out.rows
           /\ Finish(w, ToolUpdateResponse(out), "closed")
    /\ UNCHANGED <<tableExists, now, apiUp, harnessVars>>

ToolUpdate(w) ==
    \E id \in IdInputs, status \in StatusInputs, fault \in Faults :
        ToolUpdateOf(w, id, status, fault)

\* Time passes.
Tick ==
    /\ now < MaxClock
    /\ now' = now + 1
    /\ UNCHANGED <<storeVars, apiUp, pc, req, loc, conn, resp, nops,
                   harnessVars>>

Next ==
    \/ \E w \in Workers : InitCreateTable(w)
    \/ \E w \in Workers : InitCount(w)
    \/ \E w \in Workers : InitSeed(w)
    \/ \E w \in Workers : SetupDrop(w)
    \/ \E w \in Workers : SetupCreate(w)
    \/ \E w \in Workers : SetupSeed(w)
    \/ \E w \in Workers : HttpCreateBegin(w)
    \/ \E w \in Workers : ToolCreateBegin(w)
    \/ \E w \in Workers : CreateInsert(w)
    \/ \E w \in Workers : HttpGet(w)
    \/ \E w \in Workers : ToolGet(w)
    \/ \E w \in Workers : ToolUpdate(w)
    \/ Tick

Spec == Init /\ [][Next]_vars

-----------------------------------------------------------------------------
(* The phone validator on its own: validate_phone_number applied to strings *)
(* made of a prefix, a run of digits and a suffix.                          *)

PhonePrefixes ==
    { <<>>, <<"+">>, <<"+", "+">>, <<"7">>, <<"+", "7">>, <<"0">>,
      <<"+", "0">>, <<"a", "b", "c">>, <<" ">>, <<"\n">> }
PhoneSuffixes ==
    { <<>>, <<"\n">>, <<"\n", "\n">>, <<"a">>, <<" ">>, <<"\r">>, <<"+">> }
DigitRun(d, n) == [i \in 1..n |-> d]
PhoneInputs ==
    { p \o DigitRun(d, n) \o x :
        p \in PhonePrefixes, d \in {"0", "5"}, n \in 0..MaxRun,
        x \in PhoneSuffixes }

InitPhone ==
    /\ tableExists = FALSE
    /\ rows = {}
    /\ now = 1
    /\ apiUp = FALSE
    /\ pc = [w \in Workers |-> "idle"]
    /\ req = [w \in Workers |-> NoReq]
    /\ loc = [w \in Workers |-> NoLoc]
    /\ conn = [w \in Workers |-> "none"]
    /\ resp = [w \in Workers |-> NoResp]
    /\ nops = 0
    /\ vphone \in PhoneInputs
    /\ vresult = "unset"

ValidatePhone ==
    /\ vresult = "unset"
    /\ vresult' = IF validate_phone_number(vphone) THEN "true" ELSE "false"
    /\ UNCHANGED <<storeVars, now, apiUp, pc, req, loc, conn, resp, nops,
                   vphone>>

NextPhone == ValidatePhone

SpecPhone == InitPhone /\ [][NextPhone]_vars

-----------------------------------------------------------------------------
(* The patterns as the data model states them: the whole string, with      *)
(* nothing before or after.                                                 *)

WholePhone(s) ==
    \E a \in {0, 1}, b \in {0, 1} :
        /\ Len(s) - a - b \in 7..15
        /\ a = 1 => s[1] = "+"
        /\ b = 1 => s[a + 1] \in NonZeroDigits
        /\ \A i \in (a + b + 1)..Len(s) : s[i] \in Digits

WholeEmail(s) ==
    \E at \in 2..Len(s), dot \in 4..Len(s) :
        /\ at + 1 < dot
        /\ \A i \in 1..(at - 1) : s[i] \in EmailLocalChars
        /\ s[at] = "@"
        /\ \A i \in (at + 1)..(dot - 1) : s[i] \in EmailDomainChars
        /\ s[dot] = "."
        /\ Len(s) - dot >= 2
        /\ \A i \in (dot + 1)..Len(s) : s[i] \in Alpha

NonBlank(s) == \E i \in 1..Len(s) : s[i] \notin Whitespace

\* A request body the creation rules reject.
InvalidRequest(data) ==
    \/ \E f \in RequiredFields : f \notin DOMAIN data
    \/ /\ RequiredFields \subseteq DOMAIN data
       /\ \/ ~NonBlank(data.name)
          \/ ~NonBlank(data.complaint_details)
          \/ ~WholePhone(data.phone_number)
          \/ ~WholeEmail(data.email)

SameButStatus(r, q) == [q EXCEPT !.status = r.status] = r

UniqueIds(rs) ==
    \A r \in rs, q \in rs : r.complaint_id = q.complaint_id => r = q

StorageErrorAnswer(w) ==
    IF req[w].op = "http_create" THEN resp'[w].code = 500
    ELSE resp'[w].text = "Error creating complaint"

-----------------------------------------------------------------------------
(* Claims *)

\* C1: GET /complaints/<id> for an id that matches no stored row answers 404,
\* not 500, and leaves the store unchanged.
C1_MissingIdAnswers404 ==
    [][\A w \in Workers, id \in IdInputs :
         (HttpGetOf(w, id, FALSE) /\ tableExists /\ PrimaryKeyFree(rows, id))
         => (resp'[w].code = 404 /\ rows' = rows
             /\ tableExists' = tableExists)]_vars

\* C2: right after a successful Create, Get on the returned complaint_id (in
\* either adapter) returns the submitted name, phone_number, email and
\* complaint_details with created_at populated, and the stored row has status
\* "pending".
C2_CreateThenGetRoundTrip ==
    [][\A w \in Workers :
         (CreateInsert(w)
          /\ resp'[w].text = "Complaint created successfully")
         => LET id == resp'[w].complaint_id
                d == req[w].data
                got == HttpGetResponse(tableExists', rows', id, FALSE)
            IN  /\ got.code = 200
                /\ ToolGetResponse(tableExists', rows', id, FALSE).data
                     = got.data
                /\ \E g \in got.data :
                     /\ got.data = {g}
                     /\ g.complaint_id = id
                     /\ g.name = d.name
                     /\ g.phone_number = d.phone_number
                     /\ g.email = d.email
                     /\ g.complaint_details = d.complaint_details
                     /\ g.created_at # Null
                /\ \A r \in rows' :
                     r.complaint_id = id => r.status = "pending"]_vars

C2_Witness ==
    \E w \in Workers :
        /\ pc[w] = "done"
        /\ req[w].op = "http_create"
        /\ resp[w].code = 200
        /\ Cardinality(rows) > 1
        /\ \E r \in rows :
             /\ r.complaint_id = resp[w].complaint_id
             /\ r.name = req[w].data.name
             /\ r.name # Strip(r.name)

\* C3: a Create request that misses a required field, has a blank name or
\* complaint_details, or a phone_number or email not matching its pattern, is
\* answered 400 before any connection is opened, and the store is unchanged.
C3_InvalidRequestRejected ==
    [][\A w \in Workers, data \in HttpCreateInputs, id \in GenIds :
         (HttpCreateOf(w, data, id) /\ InvalidRequest(data))
         => (resp'[w].code = 400 /\ conn'[w] = "none" /\ pc'[w] = "done"
             /\ rows' = rows /\ tableExists' = tableExists)]_vars

\* C4 as stated: Initialize, in either adapter, on an empty store seeds
\* exactly the three sample records, and on a non-empty store changes no row.
C4_InitializeIdempotent ==
    [][\A w \in Workers :
         (\/ InitCreateTable(w) \/ InitCount(w) \/ InitSeed(w)
          \/ SetupDrop(w) \/ SetupCreate(w) \/ SetupSeed(w))
         => (rows' = rows \/ (rows = {} /\ rows' = SeedRows))]_vars

\* C4 amended: init_database whose emptiness check finds the table empty
\* inserts the three sample records and nothing else (on an empty table the
\* result is exactly those three); when the check finds a row, it ends without
\* inserting and no row changes.
C4_InitDatabaseIdempotent ==
    [][\A w \in Workers :
         /\ InitCreateTable(w) => rows' = rows
         /\ InitCount(w) =>
              /\ rows' = rows
              /\ rows # {} => pc'[w] = "done"
              /\ pc'[w] = "init_seed" => rows = {}
         /\ InitSeed(w) =>
              \/ rows' = rows /\ resp'[w].exc # "none"
              \/ /\ rows' = rows \cup SeedRows
                 /\ {r.complaint_id : r \in rows' \ rows} = SeedIds
                 /\ Cardinality(rows') = Cardinality(rows) + 3
                 /\ rows = {} => rows' = SeedRows]_vars

C4_Witness ==
    \E w \in Workers :
        /\ pc[w] = "done"
        /\ req[w].op = "init_database"
        /\ resp[w] = Returned
        /\ ~loc[w].empty
        /\ SeedIds \subseteq {r.complaint_id : r \in rows}
        /\ \E r \in rows : r.complaint_id \notin SeedIds

\* C5: every stored record satisfies the creation rules: name and
\* complaint_details not blank, phone_number and email matching their pattern.
C5_StoredRecordsValid ==
    \A r \in rows :
        /\ NonBlank(r.name)
        /\ NonBlank(r.complaint_details)
        /\ WholePhone(r.phone_number)
        /\ WholeEmail(r.email)

\* C6: validate_phone_number(s) is true exactly when the whole of s is an
\* optional "+", an optional digit 1-9 and 7 to 15 digits.
C6_PhoneWholeString ==
    vresult # "unset" => (vresult = "true" <=> WholePhone(vphone))

\* C7 as stated: no step deletes a record or changes a field of it other than
\* status, complaint_ids stay unique, and a status changes only by an
\* UpdateStatus on its id.
C7_RecordsImmutable ==
    [][/\ UniqueIds(rows')
       /\ \A r \in rows :
            \E q \in rows' :
              /\ SameButStatus(r, q)
              /\ q.status # r.status =>
                   \E w \in Workers :
                     ToolUpdateOf(w, r.complaint_id, q.status, FALSE)]_vars

\* C7 amended: the same, for every step but the DROP TABLE of
\* setup_complaints_database.
C7_ImmutableUnlessDropped ==
    [][/\ UniqueIds(rows')
       /\ (\A w \in Workers : ~SetupDrop(w)) =>
            \A r \in rows :
              \E q \in rows' :
                /\ SameButStatus(r, q)
                /\ q.status # r.status =>
                     \E w \in Workers :
                       ToolUpdateOf(w, r.complaint_id, q.status, FALSE)]_vars

C7_Witness ==
    /\ SeedRows \subseteq rows
    /\ \E r \in rows :
         /\ r.complaint_id \in GenIds
         /\ r.status # DefaultStatus

\* C8: UpdateStatus sets the status of the row with that id to the given
\* string, whatever it is, changes nothing else, creates no row when no row
\* matches, and reports success in both cases.
C8_UpdateFrame ==
    [][\A w \in Workers, id \in IdInputs, status \in StatusInputs :
         (ToolUpdateOf(w, id, status, FALSE) /\ tableExists)
         => /\ resp'[w].text = "Complaint status updated"
            /\ Cardinality(rows') = Cardinality(rows)
            /\ \A r \in rows :
                 IF r.complaint_id = id
                 THEN [r EXCEPT !.status = status] \in rows'
                 ELSE r \in rows'
            /\ PrimaryKeyFree(rows, id) => rows' = rows]_vars

C8_Witness ==
    \E w \in Workers, v \in Workers :
        /\ pc[w] = "done" /\ pc[v] = "done"
        /\ req[w].op = "tool_update" /\ req[v].op = "tool_update"
        /\ resp[w].text = "Complaint status updated"
        /\ resp[v].text = "Complaint status updated"
        /\ req[w].status = ""
        /\ \E r \in rows :
             r.complaint_id = req[w].complaint_id /\ r.status = ""
        /\ rows # {}
        /\ PrimaryKeyFree(rows, req[v].complaint_id)

\* C9: an INSERT whose generated complaint_id is already the id of a row is
\* answered with a storage error (500, or the tool's error string) and leaves
\* the table as it was: the existing row is kept and no row is added.
C9_CollisionIsStorageError ==
    [][\A w \in Workers :
         (CreateInsert(w) /\ tableExists
          /\ ~PrimaryKeyFree(rows, loc[w].complaint_id))
         => (rows' = rows /\ StorageErrorAnswer(w)
             /\ conn'[w] = "closed")]_vars

C9_Witness ==
    \E w \in Workers, v \in Workers :
        /\ w # v
        /\ pc[w] = "done" /\ pc[v] = "done"
        /\ req[w].op = "http_create" /\ req[v].op = "tool_create"
        /\ loc[w].complaint_id = loc[v].complaint_id
        /\ resp[w].code = 500
        /\ resp[v].complaint_id = loc[v].complaint_id
        /\ \E r \in rows :
             /\ r.complaint_id = loc[w].complaint_id
             /\ r.name = req[v].data.name
             /\ r.name # req[w].data.name

\* C10: an operation that has returned or failed holds no open connection.
C10_ConnectionReleased ==
    \A w \in Workers : pc[w] = "done" => conn[w] # "open"

=============================================================================
